---- MODULE Spec2Model ----
(***************************************************************************)
(* Scan aggregation and verification engine of                             *)
(* BarcodeScanningModalComponent (an @ngrx/component-store).               *)
(*                                                                         *)
(* The source holds two revisions of the component: revision 1 (selectors  *)
(* built with pipe(map), cue on a pairwise length change) and revision 2   *)
(* (selectors built with select(..., {debounce: true}), cue on             *)
(* newBarcode$, timestamps, overlay drawing).  The variable `variant`      *)
(* fixes the revision for a whole behaviour.                               *)
(*                                                                         *)
(* One action is one browser task: the handler, the synchronous store      *)
(* update(s) it makes and the selector notifications that follow (in       *)
(* revision 2 the debounced ones of the microtask that ends the task).     *)
(*                                                                         *)
(* Spec is a scanning session over two barcodes.  SpecValues is Spec over  *)
(* other sets of barcodes.  SpecApi adds direct calls of the two public    *)
(* updaters, with arguments the engine itself never passes.                *)
(***************************************************************************)
EXTENDS Integers, Sequences, FiniteSets, TLC

\* ---------------------------------------------------------------- constants
POSITIVE_SCAN_THRESHOLD == 3

KEEP_SCANNING_AFTER_MATCH == FALSE

\* BarcodeSearchStatus
scanned == "Scanned"

rejected == "Rejected"

matched == "Matched"

BarcodeSearchStatus == {scanned, rejected, matched}

\* ------------------------------------------------------------------- bounds
\* detections of one value that a behaviour may contain
MaxCount == 4

\* newBarcode$ emissions of one value that a behaviour may contain
MaxDispatch == 2

\* detections the scanner may deliver in one synchronous turn
MaxBurst == 2

\* last instant of the clock (milliseconds)
MaxNow == 1001

\* direct calls of the updaters that a behaviour may contain
MaxCalls == 1

\* ------------------------------------------------------------------- inputs
\* decoded values, as character sequences
Values == { <<"S", "1">>, <<"X", "9">>, <<"C", "A", "T", "7">>,
            <<"C", "A", "8">> }

\* the barcodes in front of the camera during a session
Universes == { {<<"S", "1">>, <<"X", "9">>}, {<<"C", "A", "T", "7">>},
               {<<"C", "A", "8">>} }

\* Barcode.cornerPoints is optional
Absent == "absent"

CornerPoints == {Absent, "g1"}

\* amounts by which the clock advances between tasks (milliseconds)
TickSteps == {1000, 1001}

\* a record of version 1 has no timestamp field
NoTimestamp == -1

\* count of an object that has no count property
NoCount == -1

\* nothing has been drawn on the canvas since it was created or cleared
NoDraw == -1

\* the last step was not a direct call of an updater
NoCall ==
    [op |-> "none", displayValue |-> <<>>, cornerPoints |-> Absent,
     searchStatus |-> scanned]

\* the value of barcodes.slice(-1)[0] on an empty array
Undefined ==
    [displayValue |-> <<>>, cornerPoints |-> Absent, count |-> NoCount,
     searchStatus |-> scanned, timestamp |-> NoTimestamp, ref |-> 0]

VARIABLES
    variant,        \* revision of the component: 1 or 2
    universe,       \* the values the scanner can decode in this session
    scanResults,    \* state.scanResults: key -> record
    keyOrder,       \* the keys of state.scanResults in insertion order
    filteredArray,  \* latest value of barcodesFilteredArray$
    prevNew,        \* revision 2: value remembered by distinctUntilChanged in newBarcode$
    pending,        \* value -> verifications delayed inside mergeMap
    dispatched,     \* value -> newBarcode$ emissions received by searchNewBarcodes
    stopSignals,    \* value -> calls of stopScan made by searchNewBarcodes
    scanning,       \* scanner session: "idle", "running", "stopping", "stopped"
    emitted,        \* values newBarcode$ emitted during the last task
    cues,           \* cues played by beep during the last task
    now,            \* the clock read by new Date()
    detections,     \* value -> barcodeScanned events delivered to the store
    overlay,        \* the polygons on the overlay canvas
    lastDraw,       \* the time drawBoxes read when it last drew, or NoDraw
    clearsDue,      \* stopScan calls whose clearCanvas has not run yet
    lastCall,       \* the updater call that made the last step, or NoCall
    calls           \* direct calls of the updaters made so far

vars == <<variant, universe, scanResults, keyOrder, filteredArray, prevNew, pending,
          dispatched, stopSignals, scanning, emitted, cues, now,
          detections, overlay, lastDraw, clearsDue, lastCall, calls>>

\* ------------------------------------------------------------ pure helpers
Digits == {"0", "1", "2", "3", "4", "5", "6", "7", "8", "9"}

DigitValue(c) ==
    CASE c = "0" -> 0 [] c = "1" -> 1 [] c = "2" -> 2 [] c = "3" -> 3
      [] c = "4" -> 4 [] c = "5" -> 5 [] c = "6" -> 6 [] c = "7" -> 7
      [] c = "8" -> 8 [] c = "9" -> 9

RECURSIVE ToNumber(_)
ToNumber(s) ==
    IF Len(s) = 0 THEN 0
    ELSE 10 * ToNumber(SubSeq(s, 1, Len(s) - 1)) + DigitValue(s[Len(s)])

\* a property key that is a canonical array index is enumerated before the
\* string keys, in ascending numeric order
IsArrayIndex(s) ==
    /\ Len(s) > 0
    /\ Len(s) <= 9
    /\ \A i \in 1..Len(s) : s[i] \in Digits
    /\ (Len(s) = 1 \/ s[1] # "0")

startsWith(s, p) ==
    /\ Len(s) >= Len(p)
    /\ SubSeq(s, 1, Len(p)) = p

\* variation: the second prefix is cut short
isMatchShortPrefix(barcodeValue) ==
    \/ startsWith(barcodeValue, <<"S">>)
    \/ startsWith(barcodeValue, <<"C", "A">>)

isMatch(barcodeValue) ==
    \/ startsWith(barcodeValue, <<"S">>)
    \/ startsWith(barcodeValue, <<"C", "A", "T">>)

isNotNullOrUndefined(value) == value # Undefined

RECURSIVE AscendingIndexKeys(_)
AscendingIndexKeys(S) ==
    IF S = {} THEN <<>>
    ELSE LET m == CHOOSE k \in S : \A j \in S : ToNumber(k) <= ToNumber(j)
         IN  <<m>> \o AscendingIndexKeys(S \ {m})

\* Object.values(barcodes): own enumerable properties, array-index keys first
ObjectValues(sr, order) ==
    LET idx  == {k \in DOMAIN sr : IsArrayIndex(k)}
        strs == SelectSeq(order, LAMBDA k : ~IsArrayIndex(k))
        keys == AscendingIndexKeys(idx) \o strs
    IN  [i \in 1..Len(keys) |-> sr[keys[i]]]

\* variation: the comparator with its operands exchanged
compareFnAscending(a, b) == a.count - b.count

\* comparator of the sort: negative when a goes first
compareFn(a, b) == b.count - a.count

RECURSIVE InsertSorted(_, _)
InsertSorted(s, x) ==
    IF Len(s) = 0 THEN <<x>>
    ELSE IF compareFn(s[Len(s)], x) <= 0 THEN Append(s, x)
    ELSE Append(InsertSorted(SubSeq(s, 1, Len(s) - 1), x), s[Len(s)])

\* Array.prototype.sort: stable
RECURSIVE Sort(_)
Sort(s) ==
    IF Len(s) = 0 THEN <<>>
    ELSE InsertSorted(Sort(SubSeq(s, 1, Len(s) - 1)), s[Len(s)])

barcodesFilteredArray(sr, order) ==
    Sort(SelectSeq(ObjectValues(sr, order),
                   LAMBDA item : item.count >= POSITIVE_SCAN_THRESHOLD))

\* barcodes.slice(-1)[0]
LastOf(barcodes) ==
    IF Len(barcodes) = 0 THEN Undefined ELSE barcodes[Len(barcodes)]

barcodesView(array) ==
    [i \in 1..Len(array) |->
        [count |-> array[i].count, value |-> array[i].displayValue,
         searchStatus |-> array[i].searchStatus]]

\* ----------------------------------------------------------------- updaters
\* count of the record of v, 0 when the store has none
Count(sr, v) == IF v \in DOMAIN sr THEN sr[v].count ELSE 0

\* count + 1; on a record without a count it gives NaN, which like a missing
\* count fails every comparison and stays NaN
Increment(count) == IF count = NoCount THEN NoCount ELSE count + 1

updateScanResultsV1(st, barcode) ==
    LET k == barcode.displayValue IN
    IF k \in DOMAIN st.sr
    THEN [st EXCEPT !.sr = [st.sr EXCEPT ![k] =
                [@ EXCEPT !.count = Increment(@), !.ref = @ + 1]]]
    ELSE [sr |-> st.sr @@ (k :>
                [displayValue |-> k, cornerPoints |-> barcode.cornerPoints,
                 count |-> 1, searchStatus |-> scanned,
                 timestamp |-> NoTimestamp, ref |-> 0]),
          order |-> Append(st.order, k)]

\* variation: the new record is not merged into the old scanResults
updateScanResultsV2Alone(st, barcode, date) ==
    LET k == barcode.displayValue IN
    [sr |-> (k :>
                [displayValue |-> k, cornerPoints |-> barcode.cornerPoints,
                 count |-> Increment(Count(st.sr, k)), searchStatus |-> scanned,
                 timestamp |-> date, ref |-> 0]),
     order |-> <<k>>]

updateScanResultsV2(st, barcode, date) ==
    LET k == barcode.displayValue IN
    IF k \in DOMAIN st.sr
    THEN [st EXCEPT !.sr = [st.sr EXCEPT ![k] =
                [@ EXCEPT !.displayValue = barcode.displayValue,
                          !.cornerPoints =
                              IF barcode.cornerPoints = Absent
                              THEN @ ELSE barcode.cornerPoints,
                          !.count = Increment(@),
                          !.timestamp = date,
                          !.ref = @ + 1]]]
    ELSE [sr |-> st.sr @@ (k :>
                [displayValue |-> k, cornerPoints |-> barcode.cornerPoints,
                 count |-> 1, searchStatus |-> scanned,
                 timestamp |-> date, ref |-> 0]),
          order |-> Append(st.order, k)]

\* variation: the record is rebuilt from the snapshot that newBarcode$ emitted,
\* whose count is the threshold
updateBarcodeSearchStatusStale(st, barcodeValue, searchStatus) ==
    IF barcodeValue \in DOMAIN st.sr
    THEN [st EXCEPT !.sr = [st.sr EXCEPT ![barcodeValue] =
                [@ EXCEPT !.searchStatus = searchStatus, !.ref = @ + 1,
                          !.count = POSITIVE_SCAN_THRESHOLD]]]
    ELSE st

\* variation: the old record is not spread into the new one
updateBarcodeSearchStatusNoSpread(st, barcodeValue, searchStatus) ==
    IF barcodeValue \in DOMAIN st.sr
    THEN [st EXCEPT !.sr = [st.sr EXCEPT ![barcodeValue] =
                [Undefined EXCEPT !.searchStatus = searchStatus,
                                  !.ref = st.sr[barcodeValue].ref + 1]]]
    ELSE st

updateBarcodeSearchStatus(st, barcodeValue, searchStatus) ==
    IF barcodeValue \in DOMAIN st.sr
    THEN [st EXCEPT !.sr = [st.sr EXCEPT ![barcodeValue] =
                [@ EXCEPT !.searchStatus = searchStatus, !.ref = @ + 1]]]
    ELSE [sr |-> st.sr @@ (barcodeValue :>
                [Undefined EXCEPT !.searchStatus = searchStatus]),
          order |-> Append(st.order, barcodeValue)]

\* ------------------------------------------------- selectors and effects
\* what a task carries from one store update to the next
Task ==
    [sr |-> scanResults, order |-> keyOrder, arr |-> filteredArray,
     prevNew |-> prevNew, pending |-> pending, dispatched |-> dispatched,
     emitted |-> <<>>, cues |-> <<>>, overlay |-> overlay,
     lastDraw |-> lastDraw]

beep(w, barcodeSearchStatus) ==
    [w EXCEPT !.cues = Append(@, barcodeSearchStatus)]

\* mergeMap of searchNewBarcodes: a delayed verification is started
searchNewBarcodesNext(w, barcode) ==
    [w EXCEPT !.pending[barcode.displayValue] = @ + 1,
              !.dispatched[barcode.displayValue] = @ + 1,
              !.emitted = Append(@, barcode.displayValue)]

\* the two filters of newBarcode$
newBarcodeFilter(barcode) ==
    /\ isNotNullOrUndefined(barcode)
    /\ barcode.count = POSITIVE_SCAN_THRESHOLD

\* revision 1: scanResults$ emits after every store update; the subscriber
\* searchNewBarcodes(newBarcode$) runs first, the pairwise subscriber second
NotifyV1(w) ==
    LET array == barcodesFilteredArray(w.sr, w.order)
        nb    == LastOf(array)
        w1    == IF newBarcodeFilter(nb)
                 THEN searchNewBarcodesNext(w, nb) ELSE w
        w2    == IF Len(w.arr) # Len(array) THEN beep(w1, scanned) ELSE w1
    IN  [w2 EXCEPT !.arr = array]

\* variation: a record is stale from the end of the window on
isStaleFromWindowEnd(date, timestamp) == date - timestamp >= 1000

isStale(date, timestamp) == date - timestamp > 1000

\* tap of drawBoxes: the canvas is cleared and the polygon of every record
\* handed in that has corner points and is not stale is stroked
drawBoxes(w, filteredScanResults, date) ==
    [w EXCEPT
        !.overlay =
            {[value |-> filteredScanResults[i].displayValue,
              cornerPoints |-> filteredScanResults[i].cornerPoints] :
                i \in {j \in 1..Len(filteredScanResults) :
                    /\ filteredScanResults[j].cornerPoints # Absent
                    /\ ~isStale(date, filteredScanResults[j].timestamp)}},
        !.lastDraw = date]

\* variation: drawBoxes is fed every record of the store
NotifyV2DrawAll(w, date) ==
    LET array == barcodesFilteredArray(w.sr, w.order)
        nb    == LastOf(array)
        w0    == [drawBoxes(w, ObjectValues(w.sr, w.order), date) EXCEPT
                     !.arr = array, !.prevNew = nb]
    IN  IF nb # w.prevNew /\ newBarcodeFilter(nb)
        THEN beep(searchNewBarcodesNext(w0, nb), scanned)
        ELSE w0

\* revision 2: the debounced selectors run once, on the store as the task
\* left it; select() drops a projected value identical to the previous one
NotifyV2(w, date) ==
    LET array == barcodesFilteredArray(w.sr, w.order)
        nb    == LastOf(array)
        w0    == [drawBoxes(w, array, date) EXCEPT
                     !.arr = array, !.prevNew = nb]
    IN  IF nb # w.prevNew /\ newBarcodeFilter(nb)
        THEN beep(searchNewBarcodesNext(w0, nb), scanned)
        ELSE w0

WithStore(w, st) == [w EXCEPT !.sr = st.sr, !.order = st.order]

StoreOf(w) == [sr |-> w.sr, order |-> w.order]

\* barcodeScanned listener, revision 1: updateScanResults per event
RECURSIVE ScanV1(_, _)
ScanV1(w, events) ==
    IF Len(events) = 0 THEN w
    ELSE ScanV1(NotifyV1(WithStore(w,
                    updateScanResultsV1(StoreOf(w), Head(events)))),
                Tail(events))

\* barcodeScanned$ subscriber, revision 2: updateScanResults per event
RECURSIVE ScanV2(_, _, _)
ScanV2(w, events, date) ==
    IF Len(events) = 0 THEN w
    ELSE ScanV2(WithStore(w,
                    updateScanResultsV2(StoreOf(w), Head(events), date)),
                Tail(events), date)

\* variation: the effect is torn down with the session, a result that
\* arrives after the scanner has stopped is dropped
searchNewBarcodesTapUntilStopped(w, barcodeValue, date) ==
    LET isMatched == isMatch(barcodeValue)
        w1 == [w EXCEPT !.pending[barcodeValue] = @ - 1]
        w2 == beep(w1, IF isMatched THEN matched ELSE rejected)
        w3 == WithStore(w2, updateBarcodeSearchStatus(StoreOf(w2), barcodeValue,
                                IF isMatched THEN matched ELSE rejected))
    IN  IF scanning = "stopped" THEN w1
        ELSE IF variant = 1 THEN NotifyV1(w3) ELSE NotifyV2(w3, date)

\* tap of searchNewBarcodes, without the stopScan call
searchNewBarcodesTap(w, barcodeValue, date) ==
    LET isMatched == isMatch(barcodeValue)
        w1 == [w EXCEPT !.pending[barcodeValue] = @ - 1]
        w2 == beep(w1, IF isMatched THEN matched ELSE rejected)
        w3 == WithStore(w2, updateBarcodeSearchStatus(StoreOf(w2), barcodeValue,
                                IF isMatched THEN matched ELSE rejected))
    IN  IF variant = 1 THEN NotifyV1(w3) ELSE NotifyV2(w3, date)

\* BarcodeScanner.stopScan() is requested; it completes later
stopScan(session) == IF session = "running" THEN "stopping" ELSE session

\* ------------------------------------------------------------------ actions
Occurrences(events, v) ==
    Cardinality({i \in DOMAIN events : events[i].displayValue = v})

Events == [displayValue : universe, cornerPoints : CornerPoints]

Bursts == UNION {[1..n -> Events] : n \in 1..MaxBurst}

\* the behaviour stays within MaxCount detections of every value
CountWithinBound(events) ==
    \A v \in universe :
        /\ Count(scanResults, v) + Occurrences(events, v) <= MaxCount
        /\ detections[v] + Occurrences(events, v) <= MaxCount

\* the behaviour stays within MaxDispatch emissions of every value
DispatchWithinBound(w) ==
    \A v \in universe : w.dispatched[v] <= MaxDispatch

Commit(w) ==
    /\ DispatchWithinBound(w)
    /\ scanResults' = w.sr
    /\ keyOrder' = w.order
    /\ filteredArray' = w.arr
    /\ prevNew' = w.prevNew
    /\ pending' = w.pending
    /\ dispatched' = w.dispatched
    /\ emitted' = w.emitted
    /\ cues' = w.cues
    /\ overlay' = w.overlay
    /\ lastDraw' = w.lastDraw

\* a step of the session that emits nothing and plays no cue
Quiet == emitted' = <<>> /\ cues' = <<>> /\ lastCall' = NoCall

\* the component as its constructor leaves it
Constructed ==
    /\ variant \in {1, 2}
    /\ scanResults = [k \in {} |-> Undefined]
    /\ keyOrder = <<>>
    /\ filteredArray = <<>>
    /\ prevNew = Undefined
    /\ pending = [v \in universe |-> 0]
    /\ dispatched = [v \in universe |-> 0]
    /\ stopSignals = [v \in universe |-> 0]
    /\ scanning = "idle"
    /\ emitted = <<>>
    /\ cues = <<>>
    /\ now = 0
    /\ detections = [v \in universe |-> 0]
    /\ overlay = {}
    /\ lastDraw = NoDraw
    /\ clearsDue = 0
    /\ lastCall = NoCall
    /\ calls = 0

Init ==
    /\ universe = {<<"S", "1">>, <<"X", "9">>}
    /\ Constructed

startScan ==
    /\ scanning = "idle"
    /\ scanning' = "running"
    /\ Quiet
    /\ UNCHANGED <<variant, universe, scanResults, keyOrder, filteredArray, prevNew,
                   pending, dispatched, stopSignals, now, detections,
                   overlay, lastDraw, clearsDue, calls>>

barcodeScanned ==
    /\ scanning \in {"running", "stopping"}
    /\ \E events \in Bursts :
          /\ CountWithinBound(events)
          /\ \E w \in {IF variant = 1 THEN ScanV1(Task, events)
                       ELSE NotifyV2(ScanV2(Task, events, now), now)} : Commit(w)
          /\ detections' = [v \in universe |->
                                detections[v] + Occurrences(events, v)]
    /\ lastCall' = NoCall
    /\ UNCHANGED <<variant, universe, stopSignals, scanning, now, clearsDue, calls>>

searchNewBarcodes ==
    \E v \in universe :
        /\ pending[v] > 0
        /\ \E w \in {searchNewBarcodesTap(Task, v, now)} : Commit(w)
        /\ IF isMatch(v) /\ ~KEEP_SCANNING_AFTER_MATCH
           THEN /\ stopSignals' = [stopSignals EXCEPT ![v] = @ + 1]
                /\ scanning' = stopScan(scanning)
                /\ clearsDue' = IF variant = 2 THEN clearsDue + 1
                                ELSE clearsDue
           ELSE UNCHANGED <<stopSignals, scanning, clearsDue>>
        /\ lastCall' = NoCall
        /\ UNCHANGED <<variant, universe, now, detections, calls>>

stopScanResolved ==
    /\ scanning = "stopping"
    /\ scanning' = "stopped"
    /\ Quiet
    /\ UNCHANGED <<variant, universe, scanResults, keyOrder, filteredArray, prevNew,
                   pending, dispatched, stopSignals, now, detections,
                   overlay, lastDraw, clearsDue, calls>>

\* revision 2: the timeout that stopScan sets once the scanner has stopped
clearCanvas ==
    /\ clearsDue > 0
    /\ scanning = "stopped"
    /\ clearsDue' = clearsDue - 1
    /\ overlay' = {}
    /\ lastDraw' = NoDraw
    /\ Quiet
    /\ UNCHANGED <<variant, universe, scanResults, keyOrder, filteredArray, prevNew,
                   pending, dispatched, stopSignals, scanning, now,
                   detections, calls>>

Tick ==
    /\ \E d \in TickSteps :
          /\ now + d <= MaxNow
          /\ now' = now + d
    /\ Quiet
    /\ UNCHANGED <<variant, universe, scanResults, keyOrder, filteredArray, prevNew,
                   pending, dispatched, stopSignals, scanning, detections,
                   overlay, lastDraw, clearsDue, calls>>

Next ==
    \/ startScan
    \/ barcodeScanned
    \/ searchNewBarcodes
    \/ stopScanResolved
    \/ clearCanvas
    \/ Tick

Spec == Init /\ [][Next]_vars

\* ---------------------------------------------- the updaters called directly
\* updateScanResults and updateBarcodeSearchStatus are public members of the
\* store: a caller other than the engine may apply them with any argument
updateScanResultsCall ==
    /\ calls < MaxCalls
    /\ \E barcode \in Events :
          /\ CountWithinBound(<<barcode>>)
          /\ \E w \in {IF variant = 1 THEN ScanV1(Task, <<barcode>>)
                       ELSE NotifyV2(ScanV2(Task, <<barcode>>, now), now)} :
                Commit(w)
          /\ lastCall' = [op |-> "updateScanResults",
                          displayValue |-> barcode.displayValue,
                          cornerPoints |-> barcode.cornerPoints,
                          searchStatus |-> scanned]
    /\ calls' = calls + 1
    /\ UNCHANGED <<variant, universe, stopSignals, scanning, now, detections,
                   clearsDue>>

updateBarcodeSearchStatusCall ==
    /\ calls < MaxCalls
    /\ \E barcodeValue \in universe, searchStatus \in BarcodeSearchStatus :
          /\ \E w \in {LET w1 == WithStore(Task,
                                  updateBarcodeSearchStatus(StoreOf(Task),
                                      barcodeValue, searchStatus))
                       IN  IF variant = 1 THEN NotifyV1(w1)
                           ELSE NotifyV2(w1, now)} :
                Commit(w)
          /\ lastCall' = [op |-> "updateBarcodeSearchStatus",
                          displayValue |-> barcodeValue,
                          cornerPoints |-> Absent,
                          searchStatus |-> searchStatus]
    /\ calls' = calls + 1
    /\ UNCHANGED <<variant, universe, stopSignals, scanning, now, detections,
                   clearsDue>>

NextApi ==
    \/ Next
    \/ updateScanResultsCall
    \/ updateBarcodeSearchStatusCall

SpecApi == Init /\ [][NextApi]_vars

\* ------------------------------------------ sessions over other barcode sets
InitValues ==
    /\ universe \in Universes
    /\ universe \subseteq Values
    /\ Constructed

SpecValues == InitValues /\ [][Next]_vars

TypeOK ==
    /\ variant \in {1, 2}
    /\ DOMAIN scanResults \subseteq universe
    /\ scanning \in {"idle", "running", "stopping", "stopped"}
    /\ \A v \in universe : pending[v] \in 0..MaxDispatch
    /\ universe \in Universes
    /\ lastDraw \in {NoDraw} \cup 0..MaxNow
    /\ clearsDue \in Nat
    /\ calls \in 0..MaxCalls
    /\ \A polygon \in overlay : polygon.cornerPoints \in CornerPoints \ {Absent}

\* ------------------------------------------------------------- properties
InSeq(x, s) == \E i \in 1..Len(s) : s[i] = x

\* verification results applied so far to the record of v
Applied(v) == dispatched[v] - pending[v]

\* the task that ends in the primed state applied a verification result to v
AppliedNow(v) == dispatched'[v] - pending'[v] > dispatched[v] - pending[v]

\* C1: the searchNewBarcodes effect receives each displayValue from
\* newBarcode$ at most once in a session.
C1_AtMostOneDispatchPerValue ==
    \A v \in universe : dispatched[v] <= 1

\* C2: newBarcode$ emits a value only in the task whose detection takes the
\* count of that value's record to POSITIVE_SCAN_THRESHOLD for the first
\* time; no other detection and no status update makes it emit the value.
C2_FiresOnlyAtFirstCrossing ==
    [][\A v \in universe :
          InSeq(v, emitted') =>
              /\ Count(scanResults, v) < POSITIVE_SCAN_THRESHOLD
              /\ Count(scanResults', v) >= POSITIVE_SCAN_THRESHOLD
              /\ dispatched[v] = 0]_vars

\* C3: the count of every record equals the number of detections of its value
\* delivered so far, whatever verification results were applied in between.
C3_CountEqualsDetections ==
    \A v \in universe : Count(scanResults, v) = detections[v]

\* C3 witness: a verification result was applied to a record detected more
\* often than the threshold, while another value has a record too.
C3_Witness ==
    \E v \in DOMAIN scanResults :
        /\ scanResults[v].count > POSITIVE_SCAN_THRESHOLD
        /\ scanResults[v].searchStatus # scanned
        /\ \E u \in DOMAIN scanResults : u # v /\ scanResults[u].count >= 1

\* C4: every value whose count has reached POSITIVE_SCAN_THRESHOLD has been
\* emitted by newBarcode$ and so handed to a verification.
C4_EveryConfirmedValueDispatched ==
    \A v \in DOMAIN scanResults :
        scanResults[v].count >= POSITIVE_SCAN_THRESHOLD => dispatched[v] >= 1

\* C5: for one displayValue at most one delayed verification is pending inside
\* searchNewBarcodes.
C5_AtMostOneInFlightPerValue ==
    \A v \in universe : pending[v] \in {0, 1}

\* a task wrote the searchStatus of the record of v: the record object was
\* replaced and no detection was counted
StatusWritten(v) ==
    /\ v \in DOMAIN scanResults
    /\ scanResults'[v].ref # scanResults[v].ref
    /\ scanResults'[v].count = scanResults[v].count

\* C6: a record is created with status Scanned, its status changes only from
\* Scanned to Rejected or Matched, and once it is Rejected or Matched no task
\* writes it again.
C6_StatusWrittenOnce ==
    [][\A v \in DOMAIN scanResults' :
          /\ v \notin DOMAIN scanResults =>
                scanResults'[v].searchStatus = scanned
          /\ v \in DOMAIN scanResults =>
                /\ scanResults'[v].searchStatus # scanResults[v].searchStatus
                      => /\ scanResults[v].searchStatus = scanned
                         /\ scanResults'[v].searchStatus \in {rejected, matched}
                /\ scanResults[v].searchStatus \in {rejected, matched}
                      => ~StatusWritten(v)]_vars

\* C7: a task that applies a verification result to the record of v leaves the
\* keys and their order alone, leaves every other record identical, and changes
\* of v's record nothing but searchStatus (and the object's identity).
C7_StatusUpdateFrame ==
    [][\A v \in universe :
          AppliedNow(v) =>
              /\ v \in DOMAIN scanResults
              /\ DOMAIN scanResults' = DOMAIN scanResults
              /\ keyOrder' = keyOrder
              /\ \A k \in DOMAIN scanResults \ {v} :
                    scanResults'[k] = scanResults[k]
              /\ scanResults'[v].displayValue = scanResults[v].displayValue
              /\ scanResults'[v].count = scanResults[v].count
              /\ scanResults'[v].cornerPoints = scanResults[v].cornerPoints
              /\ scanResults'[v].timestamp = scanResults[v].timestamp
              /\ scanResults'[v].searchStatus \in {rejected, matched}]_vars

\* C7 witness: a second verification result has just been applied to a record,
\* which was then already Matched or Rejected, the record has geometry and was
\* last seen after the clock started, and the other value has a record too.
C7_Witness ==
    /\ Len(cues) > 0
    /\ cues[1] \in {rejected, matched}
    /\ \E v \in DOMAIN scanResults :
          /\ Applied(v) >= 2
          /\ cues[1] = scanResults[v].searchStatus
          /\ scanResults[v].cornerPoints # Absent
          /\ variant = 2 => scanResults[v].timestamp > 0
          /\ DOMAIN scanResults # {v}

\* C8: the ranked list holds exactly the records whose count is at least
\* POSITIVE_SCAN_THRESHOLD, each once, in non-increasing order of count, and
\* barcodesView$ shows the same counts in the same order.
C8_RankedListSortedAndComplete ==
    LET confirmed == {k \in DOMAIN scanResults :
                         scanResults[k].count >= POSITIVE_SCAN_THRESHOLD}
        view == barcodesView(filteredArray)
    IN  /\ Len(filteredArray) = Cardinality(confirmed)
        /\ {filteredArray[i] : i \in 1..Len(filteredArray)}
              = {scanResults[k] : k \in confirmed}
        /\ \A i \in 1..(Len(filteredArray) - 1) :
              filteredArray[i].count >= filteredArray[i + 1].count
        /\ \A i \in 1..Len(view) :
              /\ view[i].count = filteredArray[i].count
              /\ view[i].value = filteredArray[i].displayValue
              /\ view[i].count >= POSITIVE_SCAN_THRESHOLD

\* C8 witness: two ranked records with different counts, the one with the
\* larger count being the later key of the store.
C8_Witness ==
    /\ Len(filteredArray) = 2
    /\ filteredArray[1].count > filteredArray[2].count
    /\ Len(keyOrder) = 2
    /\ filteredArray[1].displayValue = keyOrder[2]

\* C9: a record that became Matched was dispatched for verification once and
\* made searchNewBarcodes call stopScan once.
C9_MatchedStopsOnce ==
    \A v \in DOMAIN scanResults :
        scanResults[v].searchStatus = matched =>
            /\ stopSignals[v] = 1
            /\ dispatched[v] = 1

ScannedCues(s) == Cardinality({i \in 1..Len(s) : s[i] = scanned})

\* C10: a task plays the scanned cue once for each record by which it enlarges
\* the ranked list, and not at all when it leaves the ranked list's size alone.
C10_ScannedCuePerCrossing ==
    [][ScannedCues(cues') = Len(filteredArray') - Len(filteredArray)]_vars

\* the polygon of a record is on the canvas
Drawn(barcode) ==
    [value |-> barcode.displayValue, cornerPoints |-> barcode.cornerPoints]
        \in overlay

AwaitingDetection ==
    /\ scanning = "running"
    /\ \A v \in universe : pending[v] = 0

\* C12: while the session is running and nothing but a further detection can
\* change the state, the overlay does not show the geometry of a record that
\* was last detected more than 1000 ms ago.
C12_StaleGeometryNotShown ==
    AwaitingDetection =>
        \A v \in DOMAIN scanResults :
            now - scanResults[v].timestamp > 1000 => ~Drawn(scanResults[v])

\* C13 as stated: after a redraw every record of the store that has corner
\* points and was fresh (age below 1000 ms) at the redraw is on the overlay,
\* whatever its count.
C13_EveryFreshRecordDrawn ==
    lastDraw # NoDraw =>
        \A v \in DOMAIN scanResults :
            /\ scanResults[v].cornerPoints # Absent
            /\ lastDraw - scanResults[v].timestamp < 1000
            => Drawn(scanResults[v])

\* C13 amended: the overlay shows records of the ranked list only.  After a
\* redraw a record of the store is on the overlay exactly when its count has
\* reached POSITIVE_SCAN_THRESHOLD, it has corner points and its age at the
\* redraw was at most 1000 ms; the overlay shows nothing else.
C13_OverlayShowsRankedOnly ==
    lastDraw # NoDraw =>
        /\ \A v \in DOMAIN scanResults :
              Drawn(scanResults[v]) <=>
                  /\ scanResults[v].count >= POSITIVE_SCAN_THRESHOLD
                  /\ scanResults[v].cornerPoints # Absent
                  /\ lastDraw - scanResults[v].timestamp <= 1000
        /\ \A polygon \in overlay :
              /\ polygon.value \in DOMAIN scanResults
              /\ Drawn(scanResults[polygon.value])

\* C13 witness: a redraw has drawn a ranked record and left out a fresh
\* record with corner points whose count is below the threshold.
C13_Witness ==
    /\ lastDraw # NoDraw
    /\ \E v, u \in DOMAIN scanResults :
          /\ Drawn(scanResults[v])
          /\ scanResults[u].count < POSITIVE_SCAN_THRESHOLD
          /\ scanResults[u].cornerPoints # Absent
          /\ lastDraw - scanResults[u].timestamp < 1000
          /\ ~Drawn(scanResults[u])

\* C14: a call of updateScanResults for a value that has a record with a
\* count replaces the record by one with the count + 1, the corner points of
\* the call's event, the current time as timestamp and the same status, and
\* leaves every other record alone; for a value without a record it adds a
\* record with count 1 and status Scanned.
C14_DetectionUpdatesRecord ==
    [][lastCall'.op = "updateScanResults" /\ calls' = calls + 1 =>
        LET k == lastCall'.displayValue IN
        /\ k \in DOMAIN scanResults'
        /\ \A u \in DOMAIN scanResults \ {k} :
              u \in DOMAIN scanResults' /\ scanResults'[u] = scanResults[u]
        /\ IF k \in DOMAIN scanResults
           THEN scanResults[k].count # NoCount =>
                   /\ DOMAIN scanResults' = DOMAIN scanResults
                   /\ scanResults'[k].count = scanResults[k].count + 1
                   /\ scanResults'[k].cornerPoints = lastCall'.cornerPoints
                   /\ scanResults'[k].timestamp = now
                   /\ scanResults'[k].searchStatus =
                          scanResults[k].searchStatus
           ELSE /\ DOMAIN scanResults' = DOMAIN scanResults \cup {k}
                /\ scanResults'[k].count = 1
                /\ scanResults'[k].searchStatus = scanned]_vars

\* C15: a call of updateBarcodeSearchStatus for a value that has no record
\* leaves the store as it is: the same keys, the same records, and no record
\* without a count.
C15_UnknownValueIsNoOp ==
    [][/\ lastCall'.op = "updateBarcodeSearchStatus"
       /\ calls' = calls + 1
       /\ lastCall'.displayValue \notin DOMAIN scanResults
       => /\ scanResults' = scanResults
          /\ keyOrder' = keyOrder
          /\ \A k \in DOMAIN scanResults' : scanResults'[k].count # NoCount]_vars

\* C16: after every step of a session each key of the store maps to one
\* record whose displayValue is the key and whose count is at least 1, and
\* the step has kept every key the store had, in the same order.
C16_KeysGrowRecordsWellFormed ==
    [][/\ \A k \in DOMAIN scanResults' :
             /\ scanResults'[k].displayValue = k
             /\ scanResults'[k].count >= 1
       /\ DOMAIN scanResults \subseteq DOMAIN scanResults'
       /\ Len(keyOrder') = Cardinality(DOMAIN scanResults')
       /\ \A k \in DOMAIN scanResults' : InSeq(k, keyOrder')
       /\ Len(keyOrder) <= Len(keyOrder')
       /\ SubSeq(keyOrder', 1, Len(keyOrder)) = keyOrder]_vars

\* C16 witness: the store holds two records, both detected more than once,
\* and a verification result has been applied to one of them.
C16_Witness ==
    /\ Cardinality(DOMAIN scanResults) = 2
    /\ \A k \in DOMAIN scanResults :
          scanResults[k].displayValue = k /\ scanResults[k].count > 1
    /\ \E k \in DOMAIN scanResults :
          Applied(k) > 0 /\ scanResults[k].searchStatus # scanned

\* the status that the verification of v gives
Outcome(v) == IF isMatch(v) THEN matched ELSE rejected

\* C17: whatever the state of the session, a verification leaves the set of
\* verifications in flight only by having its result applied: dispatches are
\* never taken back, at most one verification of a value ends per step, and
\* the step that ends it plays the cue of the outcome and leaves the record
\* of the value, count and all, with the status of the outcome.  No step of
\* stopping (stopScan requested, scanner stopped, canvas cleared) ends one
\* in any other way.
C17_StopKeepsVerifications ==
    [][\A v \in universe :
          /\ dispatched'[v] >= dispatched[v]
          /\ dispatched'[v] - pending'[v] >= Applied(v)
          /\ dispatched'[v] - pending'[v] <= Applied(v) + 1
          /\ AppliedNow(v) =>
                /\ v \in DOMAIN scanResults'
                /\ scanResults'[v].searchStatus = Outcome(v)
                /\ scanResults'[v].count >= POSITIVE_SCAN_THRESHOLD
                /\ InSeq(Outcome(v), cues')]_vars

\* C17 witness: the scanner has stopped, and after that the result of a
\* verification dispatched while it was running was applied to its record.
C17_Witness ==
    /\ scanning = "stopped"
    /\ \E v \in DOMAIN scanResults :
          /\ dispatched[v] = 1
          /\ pending[v] = 0
          /\ scanResults[v].searchStatus = Outcome(v)
          /\ cues = <<Outcome(v)>>

\* C18: a task that applies a verification result does not make newBarcode$
\* emit, so it dispatches no further verification.
C18_ResultStartsNoVerification ==
    [][(\E v \in universe : AppliedNow(v)) => emitted' = <<>>]_vars

\* the first character is S, or the first three are C, A, T
BeginsWithSOrCAT(s) ==
    \/ Len(s) >= 1 /\ s[1] = "S"
    \/ Len(s) >= 3 /\ s[1] = "C" /\ s[2] = "A" /\ s[3] = "T"

\* C19: after every step a record with status Matched has a displayValue that
\* begins with S or CAT and a record with status Rejected has one that begins
\* with neither, and a record that was Matched or Rejected before the step
\* has the same status after it.
C19_StatusFollowsValue ==
    [][\A v \in DOMAIN scanResults' :
          /\ scanResults'[v].searchStatus = matched =>
                BeginsWithSOrCAT(scanResults'[v].displayValue)
          /\ scanResults'[v].searchStatus = rejected =>
                ~BeginsWithSOrCAT(scanResults'[v].displayValue)
          /\ v \in DOMAIN scanResults
                /\ scanResults[v].searchStatus \in {matched, rejected}
                => scanResults'[v].searchStatus =
                       scanResults[v].searchStatus]_vars

\* C19 witness: two verification results have been applied to a record
\* whose value begins with CAT, and it is Matched.
C19_Witness ==
    \E v \in DOMAIN scanResults :
        /\ Applied(v) >= 2
        /\ scanResults[v].searchStatus = matched
        /\ startsWith(v, <<"C", "A", "T">>)

====
